---- MODULE Spec2Model ----
(***************************************************************************)
(* Model of EricNeid/go-bench.                                             *)
(*                                                                         *)
(* Two programs live in the repository and both are modelled here:         *)
(*   - cmd/gobench/gobench.go: the concurrent engine (main, the watcher    *)
(*     goroutine, the timer goroutine, `clients` worker goroutines running *)
(*     client(), and printResults);                                        *)
(*   - the client package (Client, Statistic, PerformRequestWithContent,   *)
(*     RunForAmount, RunForDuration).                                      *)
(* A behaviour of Spec is a run of one of the two, or the traffic on the    *)
(* wrapped connections (MyConn) of a gobench process, which is explored on *)
(* its own: the parts not running stay in their "not running" state.       *)
(***************************************************************************)
EXTENDS Integers, Sequences, FiniteSets, TLC

\* ---------------------------------------------------------------- bounds
MaxClients == 2          \* largest -c (number of workers) explored
MaxCount == 2            \* largest -r (requests per client) of a single worker
MaxUrls == 2             \* longest URL list of a single worker
MaxAttempts == 2         \* cap on the attempts of a single worker, duration mode
MaxClientAttempts == 3   \* cap on the attempts of one client.Client
MaxBody == 1             \* longest request / response body explored
MaxSeconds == 2          \* longest run, in whole seconds
MaxBytes == 2            \* no further Read (Write) once the counter is this large

\* ------------------------------------------------------ program constants
Unset == 0 - 1           \* default of -r and -t: "not provided"
EngineSuccessLo == 200
EngineSuccessHi == 226
ClientSuccessLo == 200
ClientSuccessHi == 299

\* status codes a target may answer with: both sides of every boundary of the
\* engine's success range, and of the Client's
StatusCodes == {199, 200, 226, 227}
ClientStatusCodes == StatusCodes \cup {299, 300}

VARIABLES
    \* ----- gobench.go: configuration (immutable during the run)
    requestCount,       \* configuration.requestCount (-1 = duration mode)
    requestsDuration,   \* configuration.requestsDuration (-1 = count mode)
    clients,            \* number of workers
    urls,               \* configuration.urls
    \* ----- gobench.go: process and goroutines
    proc,               \* "off" | "running" | "exited" (status 0) | "crashed"
    mainPc,             \* position of main()
    mainI,              \* loop variable i of main's dispatch loop
    results,            \* map[int]*Result: function from registered keys
    wpc,                \* position of every worker goroutine
    wResult,            \* parameter result of client(): the key of the Result
                        \* it points to (Unset before the goroutine exists)
    wUrl,               \* index into urls of the worker's current attempt
    wErr,               \* local err of the worker's current attempt
    wStatus,            \* local statusCode of the worker's current attempt
    Interrupted,        \* number of signals buffered in the channel (cap 1)
    timeout,            \* number of values buffered in the channel (cap 1)
    timerPc,            \* "none" | "sleeping" | "fired"
    watchPc,            \* position of the watcher goroutine
    trigger,            \* the select case the watcher took
    printer,            \* locals of the two printResults activations
    reports,            \* the reports printed so far
    \* ----- client package
    cpc,                \* position of the Client's caller / current call
    Statistic,          \* Client.Statistic
    PostBody,           \* len(Client.Request.PostBody)
    target,             \* the server behind Request.URL
    cCall,              \* the call in progress
    cI,                 \* loop variable i of RunForAmount
    cN,                 \* argument requestCount of RunForAmount
    loopExpired,        \* time.Since(startTime) >= timeout
    ctxDone,            \* the context's deadline has passed
    cStatus,            \* resp.StatusCode of the current attempt
    cBody,              \* len(body) read of the current attempt
    \* ----- gobench.go: the wrapped connections
    readThroughput,     \* var readThroughput int64
    writeThroughput,    \* var writeThroughput int64
    connPc,             \* the call in progress on every MyConn
    connLen,            \* local len of that call
    connErr             \* local err of that call

configVars == <<requestCount, requestsDuration, clients, urls>>
workerVars == <<wpc, wResult, wUrl, wErr, wStatus>>
signalVars == <<Interrupted, timeout, timerPc>>
engineVars == <<configVars, proc, mainPc, mainI, results, workerVars,
                signalVars, watchPc, trigger, printer, reports>>
clientVars == <<cpc, Statistic, PostBody, target, cCall, cI, cN, loopExpired, ctxDone,
                cStatus, cBody>>
connVars == <<readThroughput, writeThroughput, connPc, connLen, connErr>>
vars == <<engineVars, clientVars, connVars>>

Workers == 0 .. (clients - 1)
Printers == {"main", "watcher"}
Fields == <<"requests", "success", "networkFailed", "badFailed">>

\* &Result{}
NewResult == [requests |-> 0, success |-> 0, networkFailed |-> 0, badFailed |-> 0]

\* the locals of printResults before its loop
NewPrinter == [pc |-> "idle", seen |-> {}, cur |-> Unset, field |-> 1,
               requests |-> 0, success |-> 0, networkFailed |-> 0, badFailed |-> 0]

\* Statistic{}
NewStatistic == [ReadThroughput |-> 0, WriteThroughput |-> 0, RequestCount |-> 0,
                 SuccessCount |-> 0, FailureCount |-> 0, NetworkFailedCount |-> 0,
                 IOFailedCount |-> 0]

RECURSIVE SumOver(_, _, _)
SumOver(f, S, field) ==
    IF S = {} THEN 0
    ELSE LET k == CHOOSE x \in S : TRUE
         IN f[k][field] + SumOver(f, S \ {k}, field)

\* the sum of one counter over all registered Results
Total(field) == SumOver(results, DOMAIN results, field)


\* ================================================================ gobench.go

\* the gobench process is not running (a run of the client package)
EngineOff ==
    /\ requestCount = 1 /\ requestsDuration = Unset /\ clients = 1 /\ urls = <<1>>
    /\ proc = "off" /\ mainPc = "assign" /\ mainI = 0
    /\ results = [k \in {} |-> NewResult]
    /\ wpc = [i \in 0 .. 0 |-> "none"]
    /\ wResult = [i \in 0 .. 0 |-> Unset]
    /\ wUrl = [i \in 0 .. 0 |-> 1]
    /\ wErr = [i \in 0 .. 0 |-> FALSE]
    /\ wStatus = [i \in 0 .. 0 |-> 0]
    /\ Interrupted = 0 /\ timeout = 0 /\ timerPc = "none"
    /\ watchPc = "select" /\ trigger = "none"
    /\ printer = [p \in Printers |-> NewPrinter]
    /\ reports = <<>>

\* the workloads explored: up to the bounds for a single worker, and -r 1,
\* one URL at most and one attempt per worker for a pool of several workers
CountBound(c) == IF c = 1 THEN MaxCount ELSE 1
UrlsBound(c) == IF c = 1 THEN MaxUrls ELSE 1
AttemptsBound(c) == IF c = 1 THEN MaxAttempts ELSE 1

\* the status codes the target answers a pool of c workers with: every
\* boundary for a single worker, one success and one bad status for a pool
StatusBound(c) == IF c = 1 THEN StatusCodes ELSE {200, 227}

\* main() up to the first result := &Result{} of the dispatch loop: a validated
\* configuration (exactly one of -r and -t provided, -c at least 1), the
\* watcher goroutine at its select, the timer goroutine sleeping when -t was
\* given, no Result registered yet.
EngineInit ==
    /\ \E c \in 1 .. MaxClients : clients = c
    /\ \E m \in 0 .. UrlsBound(clients) : urls = [k \in 1 .. m |-> k]
    /\ \E n \in 1 .. CountBound(clients) :
          \/ requestCount = n /\ requestsDuration = Unset
          \/ requestCount = Unset /\ requestsDuration = 1
    /\ proc = "running" /\ mainPc = "assign" /\ mainI = 0
    /\ results = [k \in {} |-> NewResult]
    /\ wpc = [i \in Workers |-> "none"]
    /\ wResult = [i \in Workers |-> Unset]
    /\ wUrl = [i \in Workers |-> 1]
    /\ wErr = [i \in Workers |-> FALSE]
    /\ wStatus = [i \in Workers |-> 0]
    /\ Interrupted = 0 /\ timeout = 0
    /\ timerPc = IF requestsDuration # Unset THEN "sleeping" ELSE "none"
    /\ watchPc = "select" /\ trigger = "none"
    /\ printer = [p \in Printers |-> NewPrinter]
    /\ reports = <<>>

\* ---- the worker goroutine: client(configuration, result, done)

\* the loop condition of client()
KeepGoing(i) ==
    results[wResult[i]].requests < requestCount \/ requestsDuration # Unset

\* for result.requests < requestCount || requestsDuration != -1 { for range urls
ClientLoopTest(i) ==
    /\ proc = "running" /\ wpc[i] = "test"
    /\ IF KeepGoing(i)
       THEN IF Len(urls) > 0
            THEN wpc' = [wpc EXCEPT ![i] = "do"] /\ wUrl' = [wUrl EXCEPT ![i] = 1]
            ELSE UNCHANGED <<wpc, wUrl>>
       ELSE wpc' = [wpc EXCEPT ![i] = "done"] /\ UNCHANGED wUrl
    /\ UNCHANGED <<configVars, proc, mainPc, mainI, results, wResult, wErr, wStatus,
                   signalVars, watchPc, trigger, printer, reports, clientVars, connVars>>

\* ClientDo without result.requests++
ClientDo_NoCount(i) ==
    /\ proc = "running" /\ wpc[i] = "do"
    /\ requestsDuration # Unset =>
           results[wResult[i]].requests < AttemptsBound(clients)
    /\ \E e \in BOOLEAN, s \in StatusBound(clients) :
          /\ wErr' = [wErr EXCEPT ![i] = e]
          /\ wStatus' = [wStatus EXCEPT ![i] = IF e THEN 0 ELSE s]
    /\ wpc' = [wpc EXCEPT ![i] = "classify"]
    /\ UNCHANGED <<configVars, proc, mainPc, mainI, results, wResult, wUrl,
                   signalVars, watchPc, trigger, printer, reports, clientVars, connVars>>

\* err := myClient.Do(req, resp); statusCode := resp.StatusCode();
\* result.requests++
ClientDo(i) ==
    /\ proc = "running" /\ wpc[i] = "do"
    /\ requestsDuration # Unset =>
           results[wResult[i]].requests < AttemptsBound(clients)
    /\ \E e \in BOOLEAN, s \in StatusBound(clients) :
          /\ wErr' = [wErr EXCEPT ![i] = e]
          /\ wStatus' = [wStatus EXCEPT ![i] = IF e THEN 0 ELSE s]
    /\ results' = [results EXCEPT ![wResult[i]].requests = @ + 1]
    /\ wpc' = [wpc EXCEPT ![i] = "classify"]
    /\ UNCHANGED <<configVars, proc, mainPc, mainI, wResult, wUrl,
                   signalVars, watchPc, trigger, printer, reports, clientVars, connVars>>

\* Classify with every 2xx status taken as a success
Classify_2xx(e, s) ==
    IF e THEN "networkFailed"
    ELSE IF s >= 200 /\ s <= 299 THEN "success"
    ELSE "badFailed"

\* the counter an attempt of the engine is classified into
Classify(e, s) ==
    IF e THEN "networkFailed"
    ELSE IF s >= EngineSuccessLo /\ s <= EngineSuccessHi THEN "success"
    ELSE "badFailed"

\* ClientClassify without the `continue`: a failed attempt falls through to
\* the status check and is counted as a bad status as well
ClientClassify_NoContinue(i) ==
    /\ proc = "running" /\ wpc[i] = "classify"
    /\ results' = IF wErr[i]
                  THEN [results EXCEPT ![wResult[i]].networkFailed = @ + 1,
                                       ![wResult[i]].badFailed = @ + 1]
                  ELSE [results EXCEPT
                           ![wResult[i]][Classify(wErr[i], wStatus[i])] = @ + 1]
    /\ IF wUrl[i] < Len(urls)
       THEN wUrl' = [wUrl EXCEPT ![i] = @ + 1] /\ wpc' = [wpc EXCEPT ![i] = "do"]
       ELSE wUrl' = [wUrl EXCEPT ![i] = 1] /\ wpc' = [wpc EXCEPT ![i] = "test"]
    /\ wErr' = [wErr EXCEPT ![i] = FALSE]
    /\ wStatus' = [wStatus EXCEPT ![i] = 0]
    /\ UNCHANGED <<configVars, proc, mainPc, mainI, wResult,
                   signalVars, watchPc, trigger, printer, reports, clientVars, connVars>>

\* ClientClassify going back to the loop condition after every attempt
ClientClassify_TestEachAttempt(i) ==
    /\ proc = "running" /\ wpc[i] = "classify"
    /\ results' = [results EXCEPT
                      ![wResult[i]][Classify(wErr[i], wStatus[i])] = @ + 1]
    /\ wUrl' = [wUrl EXCEPT ![i] = 1] /\ wpc' = [wpc EXCEPT ![i] = "test"]
    /\ wErr' = [wErr EXCEPT ![i] = FALSE]
    /\ wStatus' = [wStatus EXCEPT ![i] = 0]
    /\ UNCHANGED <<configVars, proc, mainPc, mainI, wResult,
                   signalVars, watchPc, trigger, printer, reports, clientVars, connVars>>

\* if err != nil { networkFailed++; continue }; success++ or badFailed++;
\* then the next URL of the pass, or back to the loop condition
ClientClassify(i) ==
    /\ proc = "running" /\ wpc[i] = "classify"
    /\ results' = [results EXCEPT
                      ![wResult[i]][Classify(wErr[i], wStatus[i])] = @ + 1]
    /\ IF wUrl[i] < Len(urls)
       THEN wUrl' = [wUrl EXCEPT ![i] = @ + 1] /\ wpc' = [wpc EXCEPT ![i] = "do"]
       ELSE wUrl' = [wUrl EXCEPT ![i] = 1] /\ wpc' = [wpc EXCEPT ![i] = "test"]
    /\ wErr' = [wErr EXCEPT ![i] = FALSE]
    /\ wStatus' = [wStatus EXCEPT ![i] = 0]
    /\ UNCHANGED <<configVars, proc, mainPc, mainI, wResult,
                   signalVars, watchPc, trigger, printer, reports, clientVars, connVars>>

\* ---- main(): the dispatch loop, the join and the final report

\* results[i] = result
MainAssign ==
    /\ proc = "running" /\ mainPc = "assign"
    /\ results' = [k \in DOMAIN results \cup {mainI} |->
                      IF k = mainI THEN NewResult ELSE results[k]]
    /\ mainPc' = "go"
    /\ UNCHANGED <<configVars, proc, mainI, workerVars,
                   signalVars, watchPc, trigger, printer, reports, clientVars, connVars>>

\* MainGo handing every worker the Result of the first iteration
MainGo_Shared ==
    /\ proc = "running" /\ mainPc = "go"
    /\ wpc' = [wpc EXCEPT ![mainI] = "test"]
    /\ wResult' = [wResult EXCEPT ![mainI] = 0]
    /\ mainI' = mainI + 1
    /\ mainPc' = IF mainI + 1 < clients THEN "assign" ELSE "wait"
    /\ UNCHANGED <<configVars, proc, results, wUrl, wErr, wStatus,
                   signalVars, watchPc, trigger, printer, reports, clientVars, connVars>>

\* go client(configuration, result, &done), with the Result this iteration
\* created and registered under key i; i++; then i < clients and the next
\* result := &Result{}, or the end of the loop
MainGo ==
    /\ proc = "running" /\ mainPc = "go"
    /\ wpc' = [wpc EXCEPT ![mainI] = "test"]
    /\ wResult' = [wResult EXCEPT ![mainI] = mainI]
    /\ mainI' = mainI + 1
    /\ mainPc' = IF mainI + 1 < clients THEN "assign" ELSE "wait"
    /\ UNCHANGED <<configVars, proc, results, wUrl, wErr, wStatus,
                   signalVars, watchPc, trigger, printer, reports, clientVars, connVars>>

\* MainWait without the join: main prints without waiting for the workers
MainWait_NoJoin ==
    /\ proc = "running" /\ mainPc = "wait"
    /\ mainPc' = "print"
    /\ printer' = [printer EXCEPT !["main"].pc = "iter"]
    /\ UNCHANGED <<configVars, proc, mainI, results, workerVars,
                   signalVars, watchPc, trigger, reports, clientVars, connVars>>

\* done.Wait() returns once every worker has called done.Done();
\* main then enters printResults
MainWait ==
    /\ proc = "running" /\ mainPc = "wait"
    /\ \A i \in Workers : wpc[i] = "done"
    /\ mainPc' = "print"
    /\ printer' = [printer EXCEPT !["main"].pc = "iter"]
    /\ UNCHANGED <<configVars, proc, mainI, results, workerVars,
                   signalVars, watchPc, trigger, reports, clientVars, connVars>>

\* main returns after its printResults: the process ends with status 0
MainReturn ==
    /\ proc = "running" /\ mainPc = "print" /\ printer["main"].pc = "done"
    /\ proc' = "exited"
    /\ UNCHANGED <<configVars, mainPc, mainI, results, workerVars,
                   signalVars, watchPc, trigger, printer, reports, clientVars, connVars>>

\* ---- printResults(results, startTime), run by main or by the watcher

\* for _, result := range results: the next entry in map order
PrintNext(p) ==
    /\ proc = "running" /\ printer[p].pc = "iter" /\ printer[p].cur = Unset
    /\ \E k \in DOMAIN results \ printer[p].seen :
          printer' = [printer EXCEPT ![p].cur = k, ![p].field = 1]
    /\ UNCHANGED <<configVars, proc, mainPc, mainI, results, workerVars,
                   signalVars, watchPc, trigger, reports, clientVars, connVars>>

\* requests += result.requests; success += ...; networkFailed += ...;
\* badFailed += ...: one unsynchronised read of one field per step
PrintRead(p) ==
    /\ proc = "running" /\ printer[p].pc = "iter" /\ printer[p].cur # Unset
    /\ LET k == printer[p].cur
           f == Fields[printer[p].field]
           last == printer[p].field = Len(Fields)
       IN printer' = [printer EXCEPT
                         ![p][f] = @ + results[k][f],
                         ![p].field = IF last THEN 1 ELSE @ + 1,
                         ![p].cur = IF last THEN Unset ELSE @,
                         ![p].seen = IF last THEN @ \cup {k} ELSE @]
    /\ UNCHANGED <<configVars, proc, mainPc, mainI, results, workerVars,
                   signalVars, watchPc, trigger, reports, clientVars, connVars>>

\* the map iteration runs while main is inside results[i] = result: the Go
\* runtime may detect the concurrent map iteration and map write and abort
PrintCrash(p) ==
    /\ proc = "running" /\ printer[p].pc = "iter" /\ printer[p].cur = Unset
    /\ mainPc = "assign"
    /\ proc' = "crashed"
    /\ UNCHANGED <<configVars, mainPc, mainI, results, workerVars,
                   signalVars, watchPc, trigger, printer, reports, clientVars, connVars>>

\* Elapsed rounding the seconds up instead of truncating them
Elapsed_RoundUp(since) == IF since = 0 THEN 1 ELSE since + 1

\* elapsed := int64(time.Since(startTime).Seconds());
\* if elapsed == 0 { elapsed = 1 }
Elapsed(since) == IF since = 0 THEN 1 ELSE since

\* the report a printResults activation prints, `since` whole seconds after
\* startTime
Report(p, since) ==
    [by |-> IF p = "main" THEN "join" ELSE trigger,
     results |-> Cardinality(printer[p].seen),
     requests |-> printer[p].requests,
     success |-> printer[p].success,
     networkFailed |-> printer[p].networkFailed,
     badFailed |-> printer[p].badFailed,
     since |-> since,
     elapsed |-> Elapsed(since),
     successRate |-> printer[p].success \div Elapsed(since),
     readRate |-> readThroughput \div Elapsed(since),
     writeRate |-> writeThroughput \div Elapsed(since)]

\* the range loop finds no further entry; the elapsed time is taken and
\* fmt.Printf(...) prints the totals and the rates
PrintEmit(p) ==
    /\ proc = "running" /\ printer[p].pc = "iter" /\ printer[p].cur = Unset
    /\ DOMAIN results \ printer[p].seen = {}
    /\ \E since \in 0 .. MaxSeconds :
          reports' = Append(reports, Report(p, since))
    /\ printer' = [printer EXCEPT ![p] = [NewPrinter EXCEPT !.pc = "done"]]
    /\ UNCHANGED <<configVars, proc, mainPc, mainI, results, workerVars,
                   signalVars, watchPc, trigger, clientVars, connVars>>

\* ---- the signal, the timer goroutine and the watcher goroutine

\* os.Interrupt is delivered to the channel Interrupted (buffer of 1); a signal
\* that arrives after the watcher has left its select is never received and
\* is left out
Interrupt ==
    /\ proc = "running" /\ Interrupted = 0 /\ watchPc = "select"
    /\ Interrupted' = 1
    /\ UNCHANGED <<configVars, proc, mainPc, mainI, results, workerVars,
                   timeout, timerPc, watchPc, trigger, printer, reports, clientVars, connVars>>

\* time.Sleep(requestsDuration seconds) returns; timeout <- true
TimerFire ==
    /\ proc = "running" /\ timerPc = "sleeping"
    /\ timerPc' = "fired"
    /\ timeout' = 1
    /\ UNCHANGED <<configVars, proc, mainPc, mainI, results, workerVars,
                   Interrupted, watchPc, trigger, printer, reports, clientVars, connVars>>

\* select { case <-Interrupted: case <-timeout: }, then printResults
WatchSelect ==
    /\ proc = "running" /\ watchPc = "select"
    /\ \/ Interrupted > 0 /\ Interrupted' = 0 /\ trigger' = "interrupt"
          /\ UNCHANGED timeout
       \/ timeout > 0 /\ timeout' = 0 /\ trigger' = "timer"
          /\ UNCHANGED Interrupted
    /\ watchPc' = "print"
    /\ printer' = [printer EXCEPT !["watcher"].pc = "iter"]
    /\ UNCHANGED <<configVars, proc, mainPc, mainI, results, workerVars,
                   timerPc, reports, clientVars, connVars>>

\* os.Exit(0)
WatchExit ==
    /\ proc = "running" /\ watchPc = "print" /\ printer["watcher"].pc = "done"
    /\ proc' = "exited"
    /\ UNCHANGED <<configVars, mainPc, mainI, results, workerVars,
                   signalVars, watchPc, trigger, printer, reports, clientVars, connVars>>



\* ============================================================ client package

clientLocals == <<cCall, cI, cN, loopExpired, ctxDone, cStatus, cBody>>

\* a server of which nothing is known: it may fail, answer with any status
\* and send a body of any length
AnyTarget == [echo |-> FALSE, body |-> 0]

\* the mock server of the tests: it always answers, at once, with
\* http.StatusOK and the same body of b bytes
EchoTarget(b) == [echo |-> TRUE, body |-> b]

\* no program uses the client package (a run of gobench)
ClientOff ==
    /\ cpc = "off" /\ Statistic = NewStatistic /\ PostBody = 0
    /\ target = AnyTarget
    /\ cCall = "none" /\ cI = 0 /\ cN = 0
    /\ loopExpired = FALSE /\ ctxDone = FALSE
    /\ cStatus = 0 /\ cBody = 0

\* Client{Request: Request{URL: ..., PostBody: ...}}: a zero Statistic. The
\* URL is that of the tests' mock server or of any other server.
ClientInit ==
    /\ cpc = "idle" /\ Statistic = NewStatistic
    /\ \E k \in 0 .. MaxBody : PostBody = k
    /\ \/ target = AnyTarget
       \/ \E b \in 0 .. MaxBody : target = EchoTarget(b)
    /\ cCall = "none" /\ cI = 0 /\ cN = 0
    /\ loopExpired = FALSE /\ ctxDone = FALSE
    /\ cStatus = 0 /\ cBody = 0

\* the callers explored: any sequence of calls against any server, and, as in
\* the tests, one run on a new Client against the mock server
MayCall == target.echo => Statistic = NewStatistic

\* func (c *Client) PerformRequest(): called by the user of the package
CallPerformRequest ==
    /\ cpc = "idle" /\ Statistic.RequestCount < MaxClientAttempts
    /\ MayCall
    /\ cCall' = "single" /\ cpc' = "inc"
    /\ UNCHANGED <<engineVars, connVars, Statistic, PostBody, target, cI, cN, loopExpired, ctxDone,
                   cStatus, cBody>>

\* func (c *Client) RunForAmount(requestCount int): i := 0
CallRunForAmount ==
    /\ cpc = "idle" /\ MayCall
    /\ \E n \in 0 .. MaxClientAttempts :
          /\ Statistic.RequestCount + n <= MaxClientAttempts
          /\ cN' = n
    /\ cCall' = "amount" /\ cI' = 0 /\ cpc' = "loopA"
    /\ UNCHANGED <<engineVars, connVars, Statistic, PostBody, target, loopExpired, ctxDone,
                   cStatus, cBody>>

\* RunForAmountLoop with `i <= requestCount`: one attempt too many
RunForAmountLoop_OffByOne ==
    /\ cpc = "loopA"
    /\ IF cI <= cN
       THEN cpc' = "inc" /\ UNCHANGED <<cCall, cN, cI>>
       ELSE cpc' = "idle" /\ cCall' = "none" /\ cN' = 0 /\ cI' = 0
    /\ UNCHANGED <<engineVars, connVars, Statistic, PostBody, target, loopExpired, ctxDone,
                   cStatus, cBody>>

\* for i := 0; i < requestCount; i++ { c.PerformRequest() }
RunForAmountLoop ==
    /\ cpc = "loopA"
    /\ IF cI < cN
       THEN cpc' = "inc" /\ UNCHANGED <<cCall, cN, cI>>
       ELSE cpc' = "idle" /\ cCall' = "none" /\ cN' = 0 /\ cI' = 0
    /\ UNCHANGED <<engineVars, connVars, Statistic, PostBody, target, loopExpired, ctxDone,
                   cStatus, cBody>>

\* func (c *Client) RunForDuration(timeout): startTime, ctx with the deadline
CallRunForDuration ==
    /\ cpc = "idle" /\ MayCall
    /\ cCall' = "duration" /\ cpc' = "loopD"
    /\ loopExpired' = FALSE /\ ctxDone' = FALSE
    /\ UNCHANGED <<engineVars, connVars, Statistic, PostBody, target, cI, cN, cStatus, cBody>>

\* time passes: time.Since(startTime) reaches timeout
LoopDeadline ==
    /\ cCall = "duration" /\ ~loopExpired
    /\ loopExpired' = TRUE
    /\ UNCHANGED <<engineVars, connVars, cpc, Statistic, PostBody, target, cCall, cI, cN, ctxDone,
                   cStatus, cBody>>

\* time passes: the deadline of ctx (created after startTime was taken) passes
CtxDeadline ==
    /\ cCall = "duration" /\ loopExpired /\ ~ctxDone
    /\ ctxDone' = TRUE
    /\ UNCHANGED <<engineVars, connVars, cpc, Statistic, PostBody, target, cCall, cI, cN, loopExpired,
                   cStatus, cBody>>

\* for time.Since(startTime) < timeout { c.PerformRequestWithContent(ctx) }
RunForDurationLoop ==
    /\ cpc = "loopD"
    /\ IF ~loopExpired
       THEN Statistic.RequestCount < MaxClientAttempts /\ cpc' = "inc"
       ELSE cpc' = "comp"
    /\ UNCHANGED <<engineVars, connVars, Statistic, PostBody, target, clientLocals>>

\* Compensates with `>= 1` for `== 1`
Compensates_Any(st) == st.NetworkFailedCount >= 1

\* if c.Statistic.NetworkFailedCount == 1
Compensates(st) == st.NetworkFailedCount = 1

\* the test of the compensation and, when it applies, c.Statistic.RequestCount--
RunForDurationEnd ==
    /\ cpc = "comp"
    /\ IF Compensates(Statistic)
       THEN /\ Statistic' = [Statistic EXCEPT !.RequestCount = @ - 1]
            /\ cpc' = "comp2"
            /\ UNCHANGED <<cCall, loopExpired, ctxDone>>
       ELSE /\ cpc' = "idle" /\ cCall' = "none"
            /\ loopExpired' = FALSE /\ ctxDone' = FALSE
            /\ UNCHANGED Statistic
    /\ UNCHANGED <<engineVars, connVars, PostBody, target, cI, cN, cStatus, cBody>>

\* RunForDurationDiscount taking one more off RequestCount
RunForDurationDiscount_Twice ==
    /\ cpc = "comp2"
    /\ Statistic' = [Statistic EXCEPT !.NetworkFailedCount = @ - 1,
                                      !.RequestCount = @ - 1]
    /\ cpc' = "idle" /\ cCall' = "none"
    /\ loopExpired' = FALSE /\ ctxDone' = FALSE
    /\ UNCHANGED <<engineVars, connVars, PostBody, target, cI, cN, cStatus, cBody>>

\* c.Statistic.NetworkFailedCount--, and RunForDuration returns
RunForDurationDiscount ==
    /\ cpc = "comp2"
    /\ Statistic' = [Statistic EXCEPT !.NetworkFailedCount = @ - 1]
    /\ cpc' = "idle" /\ cCall' = "none"
    /\ loopExpired' = FALSE /\ ctxDone' = FALSE
    /\ UNCHANGED <<engineVars, connVars, PostBody, target, cI, cN, cStatus, cBody>>

\* the position after PerformRequestWithContent returns to its caller
AfterRequest ==
    CASE cCall = "single" -> "idle"
      [] cCall = "amount" -> "loopA"
      [] cCall = "duration" -> "loopD"

\* the locals of the caller after PerformRequestWithContent returns
Returned ==
    /\ cpc' = AfterRequest
    /\ cCall' = IF cCall = "single" THEN "none" ELSE cCall
    /\ cI' = IF cCall = "amount" THEN cI + 1 ELSE cI
    /\ cStatus' = 0 /\ cBody' = 0
    /\ UNCHANGED <<cN, loopExpired, ctxDone>>

\* c.Statistic.RequestCount++
PerformInc ==
    /\ cpc = "inc"
    /\ Statistic' = [Statistic EXCEPT !.RequestCount = @ + 1]
    /\ cpc' = "do"
    /\ UNCHANGED <<engineVars, connVars, PostBody, target, clientLocals>>

\* PerformDoFail counting the failed attempt as a bad status as well
PerformDoFail_Both ==
    /\ cpc = "do"
    /\ target.echo => ctxDone
    /\ Statistic' = [Statistic EXCEPT !.NetworkFailedCount = @ + 1,
                                      !.FailureCount = @ + 1]
    /\ Returned
    /\ UNCHANGED <<engineVars, connVars, PostBody, target>>

\* resp, err := c.HTTPClient.Do(req) returns an error (always, once the context
\* is done; against the mock server in no other case):
\* c.Statistic.NetworkFailedCount++; return
PerformDoFail ==
    /\ cpc = "do"
    /\ target.echo => ctxDone
    /\ Statistic' = [Statistic EXCEPT !.NetworkFailedCount = @ + 1]
    /\ Returned
    /\ UNCHANGED <<engineVars, connVars, PostBody, target>>

\* resp, err := c.HTTPClient.Do(req) returns a response
PerformDoOk ==
    /\ cpc = "do" /\ ~ctxDone
    /\ \E s \in ClientStatusCodes :
          /\ target.echo => s = 200
          /\ cStatus' = s
    /\ cpc' = "classify"
    /\ UNCHANGED <<engineVars, connVars, Statistic, PostBody, target, cCall, cI, cN, loopExpired,
                   ctxDone, cBody>>

\* the counter a response of the client package is classified into
ClientClass(s) ==
    IF s >= ClientSuccessLo /\ s <= ClientSuccessHi THEN "SuccessCount"
    ELSE "FailureCount"

\* switch { case 200 <= StatusCode <= 299: SuccessCount++; default: FailureCount++ }
PerformClassify ==
    /\ cpc = "classify"
    /\ Statistic' = [Statistic EXCEPT ![ClientClass(cStatus)] = @ + 1]
    /\ cpc' = "readall"
    /\ UNCHANGED <<engineVars, connVars, PostBody, target, clientLocals>>

\* body, err := io.ReadAll(resp.Body); if err != nil { IOFailedCount++ }
\* (the read fails once the context is done, with the bytes read until then;
\* it may fail before, too, but not against the mock server, whose whole body
\* arrives)
PerformReadAll ==
    /\ cpc = "readall"
    /\ \E b \in 0 .. MaxBody, e \in BOOLEAN :
          /\ ctxDone => e
          /\ target.echo => /\ e = ctxDone
                            /\ b <= target.body
                            /\ ~e => b = target.body
          /\ cBody' = b
          /\ Statistic' = IF e THEN [Statistic EXCEPT !.IOFailedCount = @ + 1]
                          ELSE Statistic
    /\ cpc' = "account"
    /\ UNCHANGED <<engineVars, connVars, PostBody, target, cCall, cI, cN, loopExpired, ctxDone, cStatus>>

\* PerformAccount with `=` for `+=`
PerformAccount_Assign ==
    /\ cpc = "account"
    /\ Statistic' = [Statistic EXCEPT !.ReadThroughput = cBody,
                                      !.WriteThroughput = PostBody]
    /\ Returned
    /\ UNCHANGED <<engineVars, connVars, PostBody, target>>

\* ReadThroughput += len(body); WriteThroughput += len(PostBody); return
PerformAccount ==
    /\ cpc = "account"
    /\ Statistic' = [Statistic EXCEPT !.ReadThroughput = @ + cBody,
                                      !.WriteThroughput = @ + PostBody]
    /\ Returned
    /\ UNCHANGED <<engineVars, connVars, PostBody, target>>

\* =================================================== gobench.go: MyConn

Conns == DOMAIN connPc

\* no connection is open
ConnOff ==
    /\ readThroughput = 0 /\ writeThroughput = 0
    /\ connPc = <<>> /\ connLen = <<>> /\ connErr = <<>>

\* MyDialer has wrapped the connections of the workers (MaxConnsPerHost is
\* `clients`); both counters are zero at process start
ConnInit ==
    /\ readThroughput = 0 /\ writeThroughput = 0
    /\ \E c \in 1 .. MaxClients :
          /\ connPc = [k \in 1 .. c |-> "idle"]
          /\ connLen = [k \in 1 .. c |-> 0]
          /\ connErr = [k \in 1 .. c |-> FALSE]

\* len, err := conn.Conn.Read(b) / conn.Conn.Write(b), called by the goroutine
\* that uses connection k: the wrapped connection returns any count with or
\* without an error
ConnCall(k, op, counter) ==
    /\ connPc[k] = "idle" /\ counter < MaxBytes
    /\ \E n \in 0 .. MaxBody, e \in BOOLEAN :
          /\ connLen' = [connLen EXCEPT ![k] = n]
          /\ connErr' = [connErr EXCEPT ![k] = e]
    /\ connPc' = [connPc EXCEPT ![k] = op]
    /\ UNCHANGED <<engineVars, clientVars, readThroughput, writeThroughput>>

\* func (conn *MyConn) Read(b []byte): the call of conn.Conn.Read
ConnRead(k) == ConnCall(k, "read", readThroughput)

\* func (conn *MyConn) Write(b []byte): the call of conn.Conn.Write
ConnWrite(k) == ConnCall(k, "write", writeThroughput)

\* the locals of MyConn.Read / MyConn.Write after the return
ConnReturn(k) ==
    /\ connPc' = [connPc EXCEPT ![k] = "idle"]
    /\ connLen' = [connLen EXCEPT ![k] = 0]
    /\ connErr' = [connErr EXCEPT ![k] = FALSE]
    /\ UNCHANGED <<engineVars, clientVars>>

\* ConnReadDone adding len whether or not the read failed
ConnReadDone_Always(k) ==
    /\ connPc[k] = "read"
    /\ readThroughput' = readThroughput + connLen[k]
    /\ UNCHANGED writeThroughput
    /\ ConnReturn(k)

\* if err == nil { atomic.AddInt64(&readThroughput, int64(len)) }; return
ConnReadDone(k) ==
    /\ connPc[k] = "read"
    /\ readThroughput' = IF connErr[k] THEN readThroughput
                         ELSE readThroughput + connLen[k]
    /\ UNCHANGED writeThroughput
    /\ ConnReturn(k)

\* if err == nil { atomic.AddInt64(&writeThroughput, int64(len)) }; return
ConnWriteDone(k) ==
    /\ connPc[k] = "write"
    /\ writeThroughput' = IF connErr[k] THEN writeThroughput
                          ELSE writeThroughput + connLen[k]
    /\ UNCHANGED readThroughput
    /\ ConnReturn(k)

\* ================================================================ the system

Init ==
    \/ EngineInit /\ ClientOff /\ ConnOff
    \/ EngineOff /\ ClientInit /\ ConnOff
    \/ EngineOff /\ ClientOff /\ ConnInit

Next ==
    \/ \E i \in Workers : ClientLoopTest(i)
    \/ \E i \in Workers : ClientDo(i)
    \/ \E i \in Workers : ClientClassify(i)
    \/ MainAssign
    \/ MainGo
    \/ MainWait
    \/ MainReturn
    \/ \E p \in Printers : PrintNext(p)
    \/ \E p \in Printers : PrintRead(p)
    \/ \E p \in Printers : PrintCrash(p)
    \/ \E p \in Printers : PrintEmit(p)
    \/ Interrupt
    \/ TimerFire
    \/ WatchSelect
    \/ WatchExit
    \/ CallPerformRequest
    \/ CallRunForAmount
    \/ RunForAmountLoop
    \/ CallRunForDuration
    \/ LoopDeadline
    \/ CtxDeadline
    \/ RunForDurationLoop
    \/ RunForDurationEnd
    \/ RunForDurationDiscount
    \/ PerformInc
    \/ PerformDoFail
    \/ PerformDoOk
    \/ PerformClassify
    \/ PerformReadAll
    \/ PerformAccount
    \/ \E k \in Conns : ConnRead(k)
    \/ \E k \in Conns : ConnWrite(k)
    \/ \E k \in Conns : ConnReadDone(k)
    \/ \E k \in Conns : ConnWriteDone(k)

Spec == Init /\ [][Next]_vars

\* a step of the goroutine of worker i
WorkerStep(i) ==
    i \in Workers /\ (ClientLoopTest(i) \/ ClientDo(i) \/ ClientClassify(i))

\* a step of the main goroutine
MainStep ==
    \/ MainAssign \/ MainGo \/ MainWait \/ MainReturn
    \/ PrintNext("main") \/ PrintRead("main") \/ PrintEmit("main")

\* a step of the watcher goroutine
WatcherStep ==
    \/ WatchSelect \/ WatchExit
    \/ PrintNext("watcher") \/ PrintRead("watcher") \/ PrintEmit("watcher")

\* the Go scheduler runs every goroutine that can run, the timer fires, and
\* every attempt completes: Do returns (ClientDo is a step of the worker)
FairSpec ==
    /\ Spec
    /\ \A i \in 0 .. (MaxClients - 1) : WF_vars(WorkerStep(i))
    /\ WF_vars(MainStep)
    /\ WF_vars(WatcherStep)
    /\ WF_vars(TimerFire)


\* ==================================================================== claims

AllWorkersDone == \A i \in Workers : wpc[i] = "done"

Balanced(r) == r.requests = r.success + r.networkFailed + r.badFailed

StatSum == Statistic.SuccessCount + Statistic.FailureCount
               + Statistic.NetworkFailedCount

ReportIndexes == 1 .. Len(reports)

\* C1: in ByCount(n) mode with concurrency c and a non-empty URL list, once
\* every worker has finished, the requests summed over all Results are n * c.
C1_CountTotal ==
    (proc # "off" /\ requestCount # Unset /\ Len(urls) > 0 /\ AllWorkersDone)
        => Total("requests") = requestCount * clients

\* C2 as stated: every report (join, timer or interrupt) shows
\* requests == success + networkFailed + badStatus, and so does a Client's
\* Statistic after any sequence of completed calls.
C2_Original ==
    /\ \A k \in ReportIndexes : Balanced(reports[k])
    /\ cpc = "idle" => Statistic.RequestCount = StatSum

\* C2 as amended: the report printed after the join shows
\* requests == success + networkFailed + badStatus, and so does a Client's
\* Statistic after any sequence of completed calls.
C2_JoinReportBalanced ==
    /\ \A k \in ReportIndexes : reports[k].by = "join" => Balanced(reports[k])
    /\ cpc = "idle" => Statistic.RequestCount = StatSum

C2_Witness ==
    \E k \in ReportIndexes :
        /\ reports[k].by = "join"
        /\ reports[k].requests >= 2
        /\ reports[k].networkFailed >= 1
        /\ reports[k].success >= 1

\* C3 as stated: requests == success + networkFailed + badStatus holds for
\* every Result (and for the Statistic of a Client) in every reachable state,
\* also while an attempt is between its two increments.
C3_Original ==
    /\ \A i \in DOMAIN results : Balanced(results[i])
    /\ cpc # "off" => Statistic.RequestCount = StatSum

\* 1 while worker i is between result.requests++ and the outcome increment
InFlight(i) == IF wpc[i] = "classify" THEN 1 ELSE 0

\* 1 while the Client is between RequestCount++ and the outcome increment,
\* -1 between the two decrements of RunForDuration's compensation
ClientInFlight ==
    CASE cpc \in {"do", "classify"} -> 1
      [] cpc = "comp2" -> 0 - 1
      [] OTHER -> 0

\* C3 as amended: for every Result, requests == success + networkFailed +
\* badStatus in every state in which its worker is not between the increment
\* of requests and the increment of the outcome counter, and requests is
\* exactly one more than that sum in the states in between (the Statistic of
\* a Client likewise).
C3_BalancedUpToInFlight ==
    /\ \A i \in DOMAIN results :
          results[i].requests = results[i].success + results[i].networkFailed
                                    + results[i].badFailed + InFlight(i)
    /\ cpc # "off" => Statistic.RequestCount = StatSum + ClientInFlight

C3_Witness ==
    \E i \in DOMAIN results :
        /\ wpc[i] = "classify"
        /\ results[i].requests = 2
        /\ results[i].success + results[i].networkFailed + results[i].badFailed = 1

\* C4: at most one report is produced per run, whatever the interleaving of
\* worker completion, timer expiry and interrupt.
C4_SingleShot == Len(reports) <= 1

\* C5 as stated: in ByCount mode no report is produced while some worker is
\* still running, whatever else happens (an interrupt included).
C5_Original ==
    [][(requestCount # Unset /\ Len(reports') > Len(reports)) => AllWorkersDone]_vars

\* C5 as amended: in ByCount mode the aggregation and report of the join path
\* (main's printResults after done.Wait) happen only after every worker has
\* finished its loop.
C5_JoinAfterAllWorkers ==
    (/\ requestCount # Unset
     /\ \/ printer["main"].pc # "idle"
        \/ \E k \in ReportIndexes : reports[k].by = "join")
        => AllWorkersDone

C5_Witness ==
    /\ requestCount # Unset /\ clients = 2
    /\ \E k \in ReportIndexes : reports[k].by = "join" /\ reports[k].requests = 2


\* C6: in ByDuration mode the workers never stop on their own, and once the
\* watcher has taken the timer or the interrupt the run ends with exactly one
\* report and a successful exit: no worker is ever done, and a process that
\* has ended after the trigger has exited with status 0 and printed its report.
C6_DurationReportsAndExits ==
    requestsDuration # Unset =>
        /\ \A i \in Workers : wpc[i] # "done"
        /\ (trigger # "none" /\ proc \in {"exited", "crashed"})
               => (proc = "exited" /\ Len(reports) = 1)

\* the engine classifies a response as a success iff its status is in [200,226]
C7_Engine ==
    \A i \in DOMAIN results :
        (wpc[i] = "classify" /\ ~wErr[i] /\ wpc'[i] # "classify") =>
            results'[i] = [results[i] EXCEPT
                ![IF wStatus[i] \in 200 .. 226 THEN "success" ELSE "badFailed"] = @ + 1]

\* the Client classifies a response as a success iff its status is in [200,hi]
C7_Client(hi) ==
    (cpc = "classify" /\ cpc' = "readall") =>
        Statistic' = [Statistic EXCEPT
            ![IF cStatus \in 200 .. hi THEN "SuccessCount" ELSE "FailureCount"] = @ + 1]

\* C7 as stated: an attempt that yields a response increments success iff the
\* status code is in [200,226] and the bad-status counter otherwise, in the
\* engine worker loop and in Client.PerformRequestWithContent alike.
C7_Original == [][C7_Engine /\ C7_Client(226)]_vars

\* C7 as amended: an attempt that yields a response increments success iff the
\* status code is in [200,226] in the engine worker loop and iff it is in
\* [200,299] in Client.PerformRequestWithContent, and increments the
\* bad-status counter (badFailed, FailureCount) for every other status code.
C7_SuccessRanges == [][C7_Engine /\ C7_Client(299)]_vars

C7_Witness ==
    /\ cpc = "readall" /\ cStatus = 227
    /\ Statistic.RequestCount = 1 /\ Statistic.SuccessCount = 1
    /\ Statistic.FailureCount = 0

\* a failed attempt of worker i: requests + 1 when Do returns, then
\* networkFailed + 1 and nothing else, and on to the next URL or the loop test
C8_Engine ==
    \A i \in DOMAIN results :
        /\ (wpc[i] = "do" /\ wpc'[i] = "classify") =>
               results'[i] = [results[i] EXCEPT !.requests = @ + 1]
        /\ (wpc[i] = "classify" /\ wErr[i] /\ wpc'[i] # "classify") =>
               /\ results'[i] = [results[i] EXCEPT !.networkFailed = @ + 1]
               /\ IF wUrl[i] < Len(urls)
                  THEN wpc'[i] = "do" /\ wUrl'[i] = wUrl[i] + 1
                  ELSE wpc'[i] = "test"

\* a failed attempt of the Client: RequestCount + 1, then NetworkFailedCount + 1
\* and nothing else, and back to the caller
C8_Client ==
    /\ (cpc = "inc" /\ cpc' # "inc") =>
           /\ Statistic' = [Statistic EXCEPT !.RequestCount = @ + 1]
           /\ cpc' = "do"
    /\ (cpc = "do" /\ cpc' \notin {"do", "classify"}) =>
           /\ Statistic' = [Statistic EXCEPT !.NetworkFailedCount = @ + 1]
           /\ cpc' = AfterRequest

\* C8: an attempt that fails at transport level increases requests by exactly
\* 1 and networkFailed by exactly 1, leaves success, the bad-status counter and
\* IOFailedCount unchanged, is not retried, and does not stop the worker.
C8_FailureCountedOnce == [][C8_Engine /\ C8_Client]_vars

C8_Witness ==
    \E i \in DOMAIN results :
        /\ results[i] = [NewResult EXCEPT !.requests = 1, !.networkFailed = 1]
        /\ wpc[i] = "do" /\ wUrl[i] = 2

\* the end of Client.RunForDuration: both counters minus one when
\* NetworkFailedCount is exactly 1, nothing changed otherwise
C9_Client ==
    /\ (cpc = "comp" /\ cpc' # "comp") =>
           IF Statistic.NetworkFailedCount = 1
           THEN /\ Statistic' = [Statistic EXCEPT !.RequestCount = @ - 1]
                /\ cpc' = "comp2"
           ELSE Statistic' = Statistic /\ cpc' = "idle"
    /\ (cpc = "comp2" /\ cpc' # "comp2") =>
           /\ Statistic' = [Statistic EXCEPT !.NetworkFailedCount = @ - 1]
           /\ cpc' = "idle"

\* the totals of the report that printer p prints in this step, given the
\* number d discounted from requests and networkFailed
C9_Reported(p, d) ==
    LET r == reports'[Len(reports')]
    IN /\ r.requests = printer[p].requests - d
       /\ r.networkFailed = printer[p].networkFailed - d
       /\ r.success = printer[p].success
       /\ r.badFailed = printer[p].badFailed

\* the engine reports the sums it read, with no compensation
C9_EngineAsRead ==
    \A p \in Printers :
        (printer[p].pc = "iter" /\ printer'[p].pc = "done") => C9_Reported(p, 0)

\* the engine compensates a network-failed sum of exactly 1 in duration mode
C9_EngineCompensated ==
    \A p \in Printers :
        (printer[p].pc = "iter" /\ printer'[p].pc = "done") =>
            C9_Reported(p, IF requestsDuration # Unset /\ printer[p].networkFailed = 1
                           THEN 1 ELSE 0)

\* C9 as stated: at the end of a duration-based run (of the engine or of a
\* Client) a network-failed count of exactly 1 takes one off both the request
\* total and the network-failed total before reporting; 0 or more than 1
\* change nothing.
C9_Original == [][C9_Client /\ C9_EngineCompensated]_vars

\* C9 as amended: at the end of Client.RunForDuration a NetworkFailedCount of
\* exactly 1 takes one off both RequestCount and NetworkFailedCount, and 0 or
\* more than 1 change nothing; the engine's printResults applies no
\* compensation and reports the sums as it read them.
C9_CompensationInClientOnly == [][C9_Client /\ C9_EngineAsRead]_vars

C9_Witness ==
    /\ cpc = "comp2" /\ Statistic.NetworkFailedCount = 1
    /\ Statistic.RequestCount = 1 /\ Statistic.SuccessCount = 1

\* C10: in a duration-based run only an attempt that was in flight at the
\* cutoff is discounted: when the run ends before the context's deadline has
\* cut off any attempt, the end of the run changes no counter.
C10_OnlyInFlightDiscounted ==
    [][(cpc = "comp" /\ ~ctxDone) => Statistic' = Statistic]_vars

\* the Statistic of a Client after i attempts that were all answered with
\* status 200 and a body of b bytes, each sending k bytes
AllAnswered(i, b, k) ==
    [ReadThroughput |-> i * b, WriteThroughput |-> i * k, RequestCount |-> i,
     SuccessCount |-> i, FailureCount |-> 0, NetworkFailedCount |-> 0,
     IOFailedCount |-> 0]

\* C11: a count-based run of n attempts by one Client against a target that
\* always answers status 200 with a body of b bytes, sending k bytes each
\* time, has after i passes of its loop requests == success == i, no failure
\* of any kind, i * b bytes read and i * k bytes written, and it leaves the
\* loop at i == n.
C11_CountRunAllAnswered ==
    (target.echo /\ cCall = "amount" /\ cpc = "loopA") =>
        /\ cI <= cN
        /\ Statistic = AllAnswered(cI, target.body, PostBody)

C11_Witness ==
    /\ target.echo /\ cCall = "amount" /\ cpc = "loopA"
    /\ cN = 2 /\ cI = cN /\ target.body = 1 /\ PostBody = 1
    /\ Statistic.ReadThroughput = 2 /\ Statistic.WriteThroughput = 2

\* C12: after a duration-based run against a target that always answers at
\* once with status 200 and a body of b bytes, requests == success, no network
\* failure, bad status or IO failure remains counted, and bytes read ==
\* success * b, wherever in an attempt the cutoff struck.
C12_DurationRunAllAnswered ==
    [][(target.echo /\ cCall = "duration" /\ cCall' = "none") =>
           /\ Statistic'.RequestCount = Statistic'.SuccessCount
           /\ Statistic'.NetworkFailedCount = 0
           /\ Statistic'.FailureCount = 0
           /\ Statistic'.IOFailedCount = 0
           /\ Statistic'.ReadThroughput = Statistic'.SuccessCount * target.body]_vars

\* the sum of `requests` over all Results does not decrease in this step
C13_Engine ==
    SumOver(results', DOMAIN results', "requests") >= Total("requests")

\* C13 as stated: the sum of `requests` over all Results, and the
\* RequestCount of a Client's Statistic, never decrease from one state to the
\* next, the end-of-run handling of a duration-based run included.
C13_Original ==
    [][C13_Engine /\ Statistic'.RequestCount >= Statistic.RequestCount]_vars

\* C13 as amended: the sum of `requests` over all Results never decreases;
\* the RequestCount of a Client's Statistic never decreases except at the end
\* of RunForDuration, which takes exactly 1 off it when NetworkFailedCount is
\* exactly 1.
C13_DecreasesOnlyByCompensation ==
    [][/\ C13_Engine
       /\ \/ Statistic'.RequestCount >= Statistic.RequestCount
          \/ /\ cpc = "comp" /\ Statistic.NetworkFailedCount = 1
             /\ Statistic'.RequestCount = Statistic.RequestCount - 1]_vars

C13_Witness ==
    /\ cpc = "comp2" /\ Statistic.RequestCount = 2
    /\ Statistic.SuccessCount + Statistic.FailureCount = 2
    /\ Statistic.NetworkFailedCount = 1

\* C14: the byte counters (readThroughput and writeThroughput of the engine,
\* ReadThroughput and WriteThroughput of a Client's Statistic) are never
\* negative and never decrease, over any sequence of successful and failed
\* reads and writes by any number of concurrent connections.
C14_BytesMonotone ==
    [][/\ readThroughput >= 0 /\ writeThroughput >= 0
       /\ readThroughput' >= readThroughput
       /\ writeThroughput' >= writeThroughput
       /\ Statistic.ReadThroughput >= 0 /\ Statistic.WriteThroughput >= 0
       /\ Statistic'.ReadThroughput >= Statistic.ReadThroughput
       /\ Statistic'.WriteThroughput >= Statistic.WriteThroughput]_vars

C14_Witness ==
    /\ Cardinality(Conns) = 2
    /\ readThroughput = 2 /\ writeThroughput = 1
    /\ \E k \in Conns : connPc[k] = "read" /\ connErr[k] /\ connLen[k] = 1

\* what the call in progress on connection k adds when it returns
C17_Adds(k, op) ==
    IF connPc[k] = op /\ connPc'[k] = "idle" /\ ~connErr[k] THEN connLen[k] ELSE 0

\* C17: under every interleaving of the reads and writes of concurrent
\* workers, each Read that returns n bytes without error adds exactly n to
\* readThroughput, each Write that returns n bytes without error adds exactly
\* n to writeThroughput, and nothing else changes them: a call that returns
\* an error adds nothing and no increment is lost.
C17_NoLostBytes ==
    [][\A k \in Conns :
          (\A j \in Conns \ {k} : connPc'[j] = connPc[j]) =>
              /\ readThroughput' = readThroughput + C17_Adds(k, "read")
              /\ writeThroughput' = writeThroughput + C17_Adds(k, "write")]_vars

C17_Witness ==
    \E k \in Conns, j \in Conns :
        /\ connPc[k] = "read" /\ connLen[k] = 1 /\ ~connErr[k]
        /\ connPc[j] = "write" /\ connLen[j] = 1 /\ connErr[j]
        /\ readThroughput = 1 /\ writeThroughput = 1

\* C19: the elapsed seconds of every report are max(1, whole seconds since the
\* start of the run), so they are at least 1 and the three rates are the
\* integer quotients of success, bytes read and bytes written by them.
C19_ElapsedFloor ==
    \A n \in ReportIndexes :
        LET r == reports[n]
        IN /\ r.elapsed = (IF r.since > 1 THEN r.since ELSE 1)
           /\ r.elapsed >= 1
           /\ r.successRate = r.success \div r.elapsed
           /\ r.readRate = readThroughput \div r.elapsed
           /\ r.writeRate = writeThroughput \div r.elapsed

C19_Witness ==
    /\ Len(reports) = 2
    /\ reports[1].since = 0 /\ reports[1].elapsed = 1
    /\ reports[2].since = 2 /\ reports[2].elapsed = 2
    /\ reports[2].success = 2 /\ reports[2].successRate = 1

\* the report of the join path has been printed after every worker left its loop
C15_Aggregated ==
    AllWorkersDone /\ \E n \in ReportIndexes : reports[n].by = "join"

\* C15: in ByCount(n) mode, under fair scheduling and with every attempt
\* completing, every worker eventually leaves its loop and the engine
\* eventually aggregates, unless an interrupt arrives first; for every
\* validated configuration, an empty URL list included.
C15_CountRunTerminates ==
    (proc = "running" /\ requestCount # Unset)
        ~> (C15_Aggregated \/ Interrupted > 0 \/ trigger = "interrupt")

\* worker i takes a step
C16_Steps(i) == wpc[i] # "none" /\ wpc'[i] # wpc[i]

\* C16: the workers started so far hold pairwise distinct Results, and a step
\* of worker i leaves the Result of every other worker unchanged.
C16_OwnResultOnly ==
    [][\A i \in Workers, j \in Workers :
          (i # j /\ wpc[i] # "none" /\ wpc[j] # "none") =>
              /\ wResult[i] # wResult[j]
              /\ C16_Steps(i) => results'[wResult[j]] = results[wResult[j]]]_vars

C16_Witness ==
    /\ clients = 2
    /\ wpc[0] = "classify" /\ wpc[1] = "done"
    /\ results[0].requests = 1 /\ results[1].requests = 1
    /\ results[1].success = 1 /\ results[0].success = 0

\* C18: every aggregation sums over exactly `clients` Results, and
\* printResults never iterates over the result map while main is still
\* creating and registering Results.
C18_AggregatesAllResults ==
    /\ \A n \in ReportIndexes : reports[n].results = clients
    /\ \A p \in Printers :
          printer[p].pc = "iter" => mainPc \notin {"assign", "go"}

====
